---- MODULE Spec2Model ----
(***************************************************************************)
(* compute_hits (notebooks/02_build_hits.py): the DuckDB query that turns  *)
(* the processed ENEM parquet into the hits parquet.                       *)
(*                                                                         *)
(*   answers CTE : one row per (source row, position), the answer and key  *)
(*                 strings split into characters and unnested in parallel  *)
(*   hits CTE    : GROUP BY ALL over the non-aggregated columns, summing   *)
(*                 the positions where answer = key                        *)
(*   final SELECT: hits LEFT JOIN the source on (registration_id,          *)
(*                 exam_year), windowed MEDIAN and the above_median label  *)
(*                                                                         *)
(* SQL NULL is the empty set and a present value v is {v}, so that SQL's   *)
(* three-valued comparisons are existential quantifications.  A string is  *)
(* the sequence of its characters.  A SQL table is a bag of rows: it is    *)
(* kept as a set of rows that carry the position they come from.           *)
(*                                                                         *)
(* Four specifications share the variables:                                *)
(*   Spec        : one call with the default arguments                     *)
(*   SpecCalls   : calls in a row with a sample_size                       *)
(*   SpecWorkers : the hits CTE aggregated by threads, row by row          *)
(*   SpecDownload: calls of download() (src/data/make_dataset.py and       *)
(*                 notebooks/01_download_and_clean.py)                     *)
(***************************************************************************)
EXTENDS Integers, Sequences, FiniteSets, TLC

\* ---------------------------------------------------------------- bounds
\* The 45 of REPEAT('#', 45) (science, humanities, math), scaled down.
LShort == 2
\* The 50 of REPEAT('#', 50) (language), scaled down.
LLong == 3
\* Largest number of rows of the source parquet.
MaxRows == 3

\* ------------------------------------------------------------ SQL values
NULL == {}

Some(v) == {v}

Val(x) == CHOOSE v \in x : TRUE

\* a = b in SQL: unknown (never true) when either side is NULL.
SqlEq(a, b) == \E x \in a : \E y \in b : x = y

\* a >= b in SQL: unknown (never true) when either side is NULL.
SqlGe(a, b) == \E x \in a : \E y \in b : x >= y

\* COALESCE(x, d)
Coalesce(x, d) == IF x = NULL THEN d ELSE x

\* REPEAT(c, n)
Repeat(c, n) == Some([i \in 1..n |-> c])

\* STRING_SPLIT(str, ''): the list of the characters of str; the empty
\* string splits into the one-element list [''].
StringSplit(str) == IF Val(str) = <<>> THEN <<"">> ELSE Val(str)

\* ---------------------------------------------------------------- schema
Subjects == {"science", "humanities", "language", "math"}

\* The n of REPEAT(., n) for each subject.
Length(s) == IF s = "language" THEN LLong ELSE LShort

\* Sentinel of COALESCE(answers_s, REPEAT('#', n)).
AnswerSentinel == "#"

\* Sentinel of COALESCE(key_s, REPEAT('.', n)).
KeySentinel == "."

\* Characters drawn for the Utf8 answer and key columns: two choice letters
\* and the mark of a question left blank.
Alphabet == {"A", "B", "."}

\* ------------------------------------------------------- the answers CTE
\* The eight lists that one source row unnests: per subject, the split
\* answers (or '#' sentinels) and the split key (or '.' sentinels).
AnsList(r, s) ==
    StringSplit(Coalesce(r.answers[s], Repeat(AnswerSentinel, Length(s))))

KeyList(r, s) ==
    StringSplit(Coalesce(r.key[s], Repeat(KeySentinel, Length(s))))

Max(S) == CHOOSE m \in S : \A x \in S : x <= m

\* Several UNNESTs of one SELECT run in parallel: the row is repeated once
\* per position of the longest list and the shorter lists yield NULL.
UnnestLen(r) ==
    Max({Len(AnsList(r, s)) : s \in Subjects} \cup
        {Len(KeyList(r, s)) : s \in Subjects})

Nth(list, p) == IF p <= Len(list) THEN Some(list[p]) ELSE NULL

\* WITH answers AS (SELECT ... FROM read_parquet(...)): row and pos tell
\* apart the rows of the bag.
AnswersCTE(src) ==
    UNION { { [ row |-> i, pos |-> p,
                registration_id |-> src[i].registration_id,
                exam_year |-> src[i].exam_year,
                ans |-> [s \in Subjects |-> Nth(AnsList(src[i], s), p)],
                key |-> [s \in Subjects |-> Nth(KeyList(src[i], s), p)],
                score |-> src[i].score,
                code_exam |-> src[i].code_exam ]
              : p \in 1..UnnestLen(src[i]) }
            : i \in 1..Len(src) }

\* ---------------------------------------------------------- the hits CTE
\* GROUP BY ALL: the group of a row is its value on every column of the
\* SELECT list that is not an aggregate (NULLs group together).
GroupKey(a) ==
    [ registration_id |-> a.registration_id,
      exam_year |-> a.exam_year,
      score |-> a.score,
      code_exam |-> a.code_exam ]

\* SUM(CASE WHEN ans_s = key_s THEN 1 ELSE 0 END) over the rows of group g.
SumMatches(rows, g, s) ==
    Cardinality({a \in rows : GroupKey(a) = g /\ SqlEq(a.ans[s], a.key[s])})

HitsCTE(rows) ==
    { [ registration_id |-> g.registration_id,
        exam_year |-> g.exam_year,
        score |-> g.score,
        code_exam |-> g.code_exam,
        hits |-> [s \in Subjects |-> SumMatches(rows, g, s)] ]
      : g \in {GroupKey(a) : a \in rows} }

\* ------------------------------------------------------------- LEFT JOIN
\* ON h.registration_id = t.registration_id AND h.exam_year = t.exam_year
JoinMatches(h, src) ==
    { i \in 1..Len(src) :
        /\ SqlEq(h.registration_id, src[i].registration_id)
        /\ SqlEq(h.exam_year, src[i].exam_year) }

\* LeftJoin as an inner join.
InnerJoin(hs, src) ==
    UNION { { [h |-> h, t |-> i] : i \in JoinMatches(h, src) } : h \in hs }

\* FROM hits h LEFT JOIN (SELECT * FROM read_parquet(...)) AS t: one row per
\* matching t row, and one row with t all NULL (t = 0) when none matches.
LeftJoin(hs, src) ==
    UNION { IF JoinMatches(h, src) = {}
              THEN { [h |-> h, t |-> 0] }
              ELSE { [h |-> h, t |-> i] : i \in JoinMatches(h, src) }
            : h \in hs }

\* ------------------------------------------------------ the final SELECT
\* Partition without the rows of no hit.
PartitionWithHits(J, j, s) ==
    { q \in J : /\ q.h.exam_year = j.h.exam_year
                /\ q.h.hits[s] = j.h.hits[s]
                /\ q.h.hits[s] > 0 }

\* OVER (PARTITION BY h.exam_year, h.hits_s): the rows of the join that
\* share the year and the hits of row j (NULL years share a partition).
Partition(J, j, s) ==
    { q \in J : q.h.exam_year = j.h.exam_year /\ q.h.hits[s] = j.h.hits[s] }

RECURSIVE SortedScores(_, _)
\* The scores of subject s of the rows, in ascending order.
SortedScores(rows, s) ==
    IF rows = {} THEN <<>>
    ELSE LET m == CHOOSE q \in rows :
                    \A x \in rows : Val(q.h.score[s]) <= Val(x.h.score[s])
         IN  <<Val(m.h.score[s])>> \o SortedScores(rows \ {m}, s)

\* Median with the lower of the two central values for an even count.
MedianLowerMiddle(vals) ==
    LET n == Len(vals)
    IN  IF n = 0 THEN NULL ELSE Some(vals[(n + 1) \div 2])

\* MEDIAN = quantile_cont(0.5) of the sorted non-NULL values: NULL when
\* there is none, else interpolated half way between the two central ones.
\* Scores are drawn so that the half is exact.
Median(vals) ==
    LET n == Len(vals)
    IN  IF n = 0 THEN NULL
        ELSE IF n % 2 = 1 THEN Some(vals[(n + 1) \div 2])
        ELSE Some(vals[n \div 2] + (vals[n \div 2 + 1] - vals[n \div 2]) \div 2)

\* MEDIAN(h.score_s) OVER (PARTITION BY h.exam_year, h.hits_s)
WindowMedian(J, j, s) ==
    Median(SortedScores({q \in Partition(J, j, s) : q.h.score[s] # NULL}, s))

\* AboveMedian with > for >=.
AboveMedianStrict(score, median) ==
    IF \E x \in score : \E y \in median : x > y THEN 1 ELSE 0

\* CASE WHEN h.score_s >= MEDIAN(...) OVER (...) THEN 1 ELSE 0 END
AboveMedian(score, median) == IF SqlGe(score, median) THEN 1 ELSE 0

\* One row of the result: h.*, the medians, the labels and the passthrough
\* columns of t (t tells apart the rows of the bag).
OutRow(J, j, src) ==
    LET median == [s \in Subjects |-> WindowMedian(J, j, s)]
    IN  [ registration_id |-> j.h.registration_id,
          exam_year |-> j.h.exam_year,
          score |-> j.h.score,
          code_exam |-> j.h.code_exam,
          hits |-> j.h.hits,
          median_score |-> median,
          above_median |->
              [s \in Subjects |-> AboveMedian(j.h.score[s], median[s])],
          sex |-> IF j.t = 0 THEN NULL ELSE src[j.t].sex,
          school_type |-> IF j.t = 0 THEN NULL ELSE src[j.t].school_type,
          t |-> j.t ]

FinalSelect(J, src) == { OutRow(J, j, src) : j \in J }

\* The whole query on a source table.
Query(src) == FinalSelect(LeftJoin(HitsCTE(AnswersCTE(src)), src), src)

\* ------------------------------------------------------------ the source
\* A row of the source parquet with answers that equal the key in every
\* subject: the other rows differ from it in a few columns.  sex and
\* school_type stand for the eleven passthrough columns of t.
BaseRow ==
    [ registration_id |-> Some(1),
      exam_year |-> Some(2017),
      answers |-> [s \in Subjects |-> Repeat("A", Length(s))],
      key |-> [s \in Subjects |-> Repeat("A", Length(s))],
      score |-> [s \in Subjects |-> Some(500)],
      code_exam |-> [s \in Subjects |-> Some(1)],
      sex |-> Some(1),
      school_type |-> Some(2) ]

\* The non-empty strings of at most n characters over the alphabet A (the
\* CSV reader turns an empty field into NULL), and NULL.
Strings(A, n) == UNION { {Some(x) : x \in [1..k -> A]} : k \in 1..n }

StringOrNull(A, n) == Strings(A, n) \cup {NULL}

\* One candidate whose science answers and key are any two strings of up
\* to one character more than the expected length, or absent; a key holds
\* no blank mark.
StringRows ==
    { [BaseRow EXCEPT !.answers["science"] = a, !.key["science"] = k]
      : a \in StringOrNull(Alphabet, LShort + 1),
        k \in StringOrNull(Alphabet \ {"."}, LShort + 1) }

Candidate(id, year, sc, lsc, ans) ==
    [BaseRow EXCEPT !.registration_id = id, !.exam_year = year,
                    !.score["science"] = sc, !.score["language"] = lsc,
                    !.answers["science"] = ans]

AllRight == Repeat("A", LShort)

OneWrong == Some([i \in 1..LShort |-> IF i = 1 THEN "B" ELSE "A"])

\* Candidates with registration ids 1, 2, 3 or none and science scores 500,
\* 600 or none, and one row each with no year, with one wrong answer,
\* with another language score, with one wrong answer and no science score,
\* with no language answers.
CandidateRows ==
    { Candidate(Some(1), Some(2017), Some(500), Some(500), AllRight),
      Candidate(Some(1), Some(2017), Some(600), Some(500), AllRight),
      Candidate(Some(2), Some(2017), Some(500), Some(500), AllRight),
      Candidate(Some(2), Some(2017), NULL, Some(500), AllRight),
      Candidate(NULL, Some(2017), Some(500), Some(500), AllRight),
      Candidate(Some(2), NULL, Some(500), Some(500), AllRight),
      Candidate(Some(2), Some(2017), Some(500), Some(500), OneWrong),
      Candidate(Some(1), Some(2017), Some(500), Some(600), AllRight),
      Candidate(Some(3), Some(2017), NULL, Some(500), OneWrong),
      [BaseRow EXCEPT !.registration_id = Some(3), !.answers["language"] = NULL] }

\* The tables read_parquet may return: one row of StringRows, or up to
\* MaxRows rows of CandidateRows in any order, repeated rows included.
Sources ==
    { <<r>> : r \in StringRows } \cup
    UNION { [1..n -> CandidateRows] : n \in 1..MaxRows }

\* --------------------------------------------------------- state machine
VARIABLES
    source,       \* the rows of the parquet at parquet_path
    pc,           \* how far the call has run
    answers,      \* the rows of the answers CTE
    hits,         \* the rows of the hits CTE
    joined,       \* the rows of hits LEFT JOIN t
    output,       \* the rows of df
    exists,       \* parquet_path.exists()
    sample_size,  \* the argument sample_size: NULL for None
    out_file,     \* the table in the file at out_path: NULL when no file
    calls,        \* the calls of compute_hits made so far
    taken,        \* the source rows whose answers a thread has aggregated
    partial,      \* the groups each thread of the aggregation holds
    zip,          \* the chunks in the file at the ZIP path: NULL when no file
    dl_pc,        \* how far the running download() has come
    dl_fn,        \* the download() that runs: the module's or the notebook's
    attempts,     \* the GET requests the session has retried in this call
    dl_calls      \* the calls of download() made so far

vars == <<source, pc, answers, hits, joined, output, exists, sample_size,
          out_file, calls, taken, partial, zip, dl_pc, dl_fn, attempts,
          dl_calls>>

dlVars == <<zip, dl_pc, dl_fn, attempts, dl_calls>>

\* The two download() of the repository, which write the same file.
Functions == {"make_dataset", "notebook"}

\* No download() has been called and the ZIP path holds no file.
NoDownload ==
    /\ zip = NULL
    /\ dl_pc = "idle"
    /\ dl_fn = "make_dataset"
    /\ attempts = 0
    /\ dl_calls = 0

\* The threads of the hash aggregate.
NumWorkers == 2

Workers == 1..NumWorkers

workerVars == <<taken, partial>>

\* What a call is given and what it leaves behind.
callVars == <<source, exists, sample_size, calls>>

\* ------------------------------------------------------------ the LIMIT
\* LIMIT sample_size on the answers CTE: the clause follows the SELECT that
\* unnests, so it keeps the first n unnested rows, in the order of the file
\* and of the positions; no clause when sample_size is None.
LimitUnnestedUnordered(rows, n) ==
    IF n = NULL THEN rows
    ELSE { a \in rows :
             Cardinality({ b \in rows :
                 \/ (calls % 2 = 1) /\ b.row < a.row
                 \/ (calls % 2 = 0) /\ b.row > a.row
                 \/ b.row = a.row /\ b.pos < a.pos }) < Val(n) }

LimitUnnested(rows, n) ==
    IF n = NULL THEN rows
    ELSE { a \in rows :
             Cardinality({ b \in rows :
                 \/ b.row < a.row
                 \/ b.row = a.row /\ b.pos < a.pos }) < Val(n) }

\* LIMIT sample_size on SELECT * FROM read_parquet(...): the first n rows
\* of the file.
LimitRows(src, n) ==
    IF n = NULL \/ Val(n) >= Len(src) THEN src ELSE SubSeq(src, 1, Val(n))

\* A hits parquet left at out_path by an earlier run.
PreviousOutput == Some(Query(<<BaseRow>>))

\* No query has run in the call.
Fresh ==
    /\ pc = "start"
    /\ answers = {}
    /\ hits = {}
    /\ joined = {}
    /\ output = {}
    /\ taken = {}
    /\ partial = [w \in Workers |-> {}]

\* compute_hits() with its default arguments: on a source parquet that is
\* there and no hits parquet yet, or on a missing source parquet.
Init ==
    /\ Fresh
    /\ NoDownload
    /\ sample_size = NULL
    /\ calls = 1
    /\ \/ exists = TRUE /\ source \in Sources /\ out_file = NULL
       \/ exists = FALSE /\ source = <<>> /\ out_file \in {NULL, PreviousOutput}

\* NotFound that leaves an empty table at out_path.
NotFoundEmptyOutput ==
    /\ pc = "start"
    /\ ~exists
    /\ pc' = "raised"
    /\ out_file' = Some({})
    /\ UNCHANGED <<answers, hits, joined, output>>
    /\ UNCHANGED callVars
    /\ UNCHANGED workerVars
    /\ UNCHANGED dlVars

\* if not parquet_path.exists(): raise FileNotFoundError(...)
NotFound ==
    /\ pc = "start"
    /\ ~exists
    /\ pc' = "raised"
    /\ UNCHANGED <<answers, hits, joined, output, out_file>>
    /\ UNCHANGED callVars
    /\ UNCHANGED workerVars
    /\ UNCHANGED dlVars

Unnest ==
    /\ pc = "start"
    /\ exists
    /\ answers' = LimitUnnested(AnswersCTE(source), sample_size)
    /\ pc' = "answers"
    /\ UNCHANGED <<hits, joined, output, out_file>>
    /\ UNCHANGED callVars
    /\ UNCHANGED workerVars
    /\ UNCHANGED dlVars

GroupByAll ==
    /\ pc = "answers"
    /\ hits' = HitsCTE(answers)
    /\ pc' = "hits"
    /\ UNCHANGED <<answers, joined, output, out_file>>
    /\ UNCHANGED callVars
    /\ UNCHANGED workerVars
    /\ UNCHANGED dlVars

Join ==
    /\ pc = "hits"
    /\ joined' = LeftJoin(hits, LimitRows(source, sample_size))
    /\ pc' = "joined"
    /\ UNCHANGED <<answers, hits, output, out_file>>
    /\ UNCHANGED callVars
    /\ UNCHANGED workerVars
    /\ UNCHANGED dlVars

Select ==
    /\ pc = "joined"
    /\ output' = FinalSelect(joined, source)
    /\ pc' = "done"
    /\ UNCHANGED <<answers, hits, joined, out_file>>
    /\ UNCHANGED callVars
    /\ UNCHANGED workerVars
    /\ UNCHANGED dlVars

\* df.write_parquet(out_path); return out_path
WriteParquet ==
    /\ pc = "done"
    /\ out_file' = Some(output)
    /\ pc' = "returned"
    /\ UNCHANGED <<answers, hits, joined, output>>
    /\ UNCHANGED callVars
    /\ UNCHANGED workerVars
    /\ UNCHANGED dlVars

Next == NotFound \/ Unnest \/ GroupByAll \/ Join \/ Select \/ WriteParquet

Spec == Init /\ [][Next]_vars

\* ------------------------------------------------- calls with a sample
MaxSample == 4

MaxCalls == 2

\* Three candidates of one year: all answers right, one wrong answer, and
\* one wrong answer with no science score.
SampleRows ==
    { Candidate(Some(1), Some(2017), Some(500), Some(500), AllRight),
      Candidate(Some(2), Some(2017), Some(600), Some(500), OneWrong),
      Candidate(Some(3), Some(2017), NULL, Some(500), OneWrong) }

SampleSources == UNION { [1..n -> SampleRows] : n \in 1..MaxRows }

SampleSizes == {NULL} \cup { Some(n) : n \in 1..MaxSample }

\* compute_hits(sample_size=n) on a source parquet of a few candidates, or
\* on a missing one.
InitCalls ==
    /\ Fresh
    /\ NoDownload
    /\ calls = 1
    /\ out_file = NULL
    /\ sample_size \in SampleSizes
    /\ \/ exists = TRUE /\ source \in SampleSources
       \/ exists = FALSE /\ source = <<>>

\* The caller runs compute_hits again with the same arguments: the query
\* runs on a new in-memory connection, the files stay as they are.
CallAgain ==
    /\ pc \in {"returned", "raised"}
    /\ calls < MaxCalls
    /\ calls' = calls + 1
    /\ pc' = "start"
    /\ answers' = {}
    /\ hits' = {}
    /\ joined' = {}
    /\ output' = {}
    /\ taken' = {}
    /\ partial' = [w \in Workers |-> {}]
    /\ UNCHANGED <<source, exists, sample_size, out_file>>
    /\ UNCHANGED dlVars

NextCalls == Next \/ CallAgain

SpecCalls == InitCalls /\ [][NextCalls]_vars

\* ------------------------------------------- the aggregate in parallel
\* The count of subject s that table T holds for group g: 0 when T has no
\* record of the group.
HitsIn(T, g, s) ==
    IF \E x \in T : GroupKey(x) = g
      THEN (CHOOSE x \in T : GroupKey(x) = g).hits[s]
      ELSE 0

\* Merge where a group found in both tables keeps the count of the first.
MergeKeepFirst(A, B) ==
    { [ registration_id |-> g.registration_id,
        exam_year |-> g.exam_year,
        score |-> g.score,
        code_exam |-> g.code_exam,
        hits |-> [s \in Subjects |->
                    IF \E x \in A : GroupKey(x) = g
                      THEN HitsIn(A, g, s) ELSE HitsIn(B, g, s)] ]
      : g \in {GroupKey(x) : x \in A \cup B} }

\* Two tables of groups combined into one: the SUM of a group found in
\* both is the sum of its two partial sums.
Merge(A, B) ==
    { [ registration_id |-> g.registration_id,
        exam_year |-> g.exam_year,
        score |-> g.score,
        code_exam |-> g.code_exam,
        hits |-> [s \in Subjects |-> HitsIn(A, g, s) + HitsIn(B, g, s)] ]
      : g \in {GroupKey(x) : x \in A \cup B} }

RECURSIVE MergeAll(_)
\* The tables of the threads w..NumWorkers combined.
MergeAll(w) ==
    IF w > NumWorkers THEN {} ELSE Merge(partial[w], MergeAll(w + 1))

\* The source rows that have rows in the answers CTE.
AnswerRows == { a.row : a \in answers }

\* Thread w takes the answers of a source row no thread has taken yet and
\* adds them to the groups it holds.
Take(w) ==
    /\ pc = "answers"
    /\ \E i \in AnswerRows \ taken :
         /\ taken' = taken \cup {i}
         /\ partial' = [partial EXCEPT
                ![w] = Merge(partial[w], HitsCTE({a \in answers : a.row = i}))]
    /\ UNCHANGED <<pc, answers, hits, joined, output, out_file>>
    /\ UNCHANGED callVars
    /\ UNCHANGED dlVars

\* Combine that does not wait for the threads to finish.
CombineEarly ==
    /\ pc = "answers"
    /\ hits' = MergeAll(1)
    /\ pc' = "hits"
    /\ UNCHANGED <<answers, joined, output, out_file>>
    /\ UNCHANGED callVars
    /\ UNCHANGED workerVars
    /\ UNCHANGED dlVars

\* The aggregate is a pipeline breaker: when every row of answers has been
\* taken, the tables of the threads are combined into the hits CTE.
Combine ==
    /\ pc = "answers"
    /\ taken = AnswerRows
    /\ hits' = MergeAll(1)
    /\ pc' = "hits"
    /\ UNCHANGED <<answers, joined, output, out_file>>
    /\ UNCHANGED callVars
    /\ UNCHANGED workerVars
    /\ UNCHANGED dlVars

\* compute_hits() on a source parquet of a few candidates, or on a missing
\* one.
InitWorkers ==
    /\ Fresh
    /\ NoDownload
    /\ calls = 1
    /\ out_file = NULL
    /\ sample_size = NULL
    /\ \/ exists = TRUE /\ source \in SampleSources
       \/ exists = FALSE /\ source = <<>>

NextWorkers ==
    \/ NotFound
    \/ Unnest
    \/ \E w \in Workers : Take(w)
    \/ Combine
    \/ Join
    \/ Select
    \/ WriteParquet

SpecWorkers == InitWorkers /\ [][NextWorkers]_vars

\* ----------------------------------------------------------- download()
\* The chunks iter_content yields for the whole remote archive.
RemoteChunks == 3

MaxDownloads == 3

\* Retry(total=5, ...) on the session of make_dataset.download(); the
\* notebook's requests.get has no retry.
RetryTotal == 5

Retries(fn) == IF fn = "make_dataset" THEN RetryTotal ELSE 0

\* What compute_hits reads and writes: download() touches none of it.
hitsVars == <<pc, answers, hits, joined, output, out_file, source, exists,
              sample_size, calls, taken, partial>>

\* A caller calls one of the two download().
DlCall ==
    /\ dl_pc \in {"idle", "returned", "raised"}
    /\ dl_calls < MaxDownloads
    /\ dl_calls' = dl_calls + 1
    /\ dl_fn' \in Functions
    /\ attempts' = 0
    /\ dl_pc' = "check"
    /\ UNCHANGED zip
    /\ UNCHANGED hitsVars

\* The file is there: the path is returned with no request.
DlAlreadyExists ==
    /\ dl_pc = "check"
    /\ zip # NULL
    /\ dl_pc' = "returned"
    /\ UNCHANGED <<zip, dl_fn, attempts, dl_calls>>
    /\ UNCHANGED hitsVars

\* No file: the GET goes out.
DlRequest ==
    /\ dl_pc = "check"
    /\ zip = NULL
    /\ dl_pc' = "get"
    /\ UNCHANGED <<zip, dl_fn, attempts, dl_calls>>
    /\ UNCHANGED hitsVars

\* The GET meets a status of status_forcelist and the session has a retry
\* left: it sends the request again.
DlRetry ==
    /\ dl_pc = "get"
    /\ attempts < Retries(dl_fn)
    /\ attempts' = attempts + 1
    /\ UNCHANGED <<zip, dl_pc, dl_fn, dl_calls>>
    /\ UNCHANGED hitsVars

\* The GET fails for good (no retry left, or a status raise_for_status
\* rejects): the call raises before the file is opened.
DlRequestFails ==
    /\ dl_pc = "get"
    /\ dl_pc' = "raised"
    /\ UNCHANGED <<zip, dl_fn, attempts, dl_calls>>
    /\ UNCHANGED hitsVars

\* The response is good: open(zip_path, "wb") makes the empty file.
DlOpen ==
    /\ dl_pc = "get"
    /\ zip' = Some(0)
    /\ dl_pc' = "writing"
    /\ UNCHANGED <<dl_fn, attempts, dl_calls>>
    /\ UNCHANGED hitsVars

\* f.write(chunk) of the next chunk of the stream.
DlWriteChunk ==
    /\ dl_pc = "writing"
    /\ Val(zip) < RemoteChunks
    /\ zip' = Some(Val(zip) + 1)
    /\ UNCHANGED <<dl_pc, dl_fn, attempts, dl_calls>>
    /\ UNCHANGED hitsVars

\* iter_content raises in the middle of the stream: the with block closes
\* the file and the exception leaves the call; nothing removes the file.
DlStreamFails ==
    /\ dl_pc = "writing"
    /\ Val(zip) < RemoteChunks
    /\ dl_pc' = "raised"
    /\ UNCHANGED <<zip, dl_fn, attempts, dl_calls>>
    /\ UNCHANGED hitsVars

\* The stream is exhausted: the path is returned.
DlReturn ==
    /\ dl_pc = "writing"
    /\ Val(zip) = RemoteChunks
    /\ dl_pc' = "returned"
    /\ UNCHANGED <<zip, dl_fn, attempts, dl_calls>>
    /\ UNCHANGED hitsVars

\* The raw data directory before the first download(): no call of
\* compute_hits is under way and no parquet has been built.
InitDownload ==
    /\ Fresh
    /\ NoDownload
    /\ calls = 1
    /\ out_file = NULL
    /\ sample_size = NULL
    /\ exists = FALSE
    /\ source = <<>>

NextDownload ==
    \/ DlCall
    \/ DlAlreadyExists
    \/ DlRequest
    \/ DlRetry
    \/ DlRequestFails
    \/ DlOpen
    \/ DlWriteChunk
    \/ DlStreamFails
    \/ DlReturn

SpecDownload == InitDownload /\ [][NextDownload]_vars

\* ---------------------------------------------------------------- claims
\* The query of the call has produced df.
Done == pc \in {"done", "returned"}

\* The columns a hit record and its output rows share with the source row
\* they come from.
RowsOf(out, r) == { o \in out : GroupKey(o) = GroupKey(r) }

\* The hit record inside an output row.
HitOf(o) ==
    [ registration_id |-> o.registration_id, exam_year |-> o.exam_year,
      score |-> o.score, code_exam |-> o.code_exam, hits |-> o.hits ]

\* The number of positions where two strings hold the same character.
MatchCount(a, k) ==
    Cardinality({p \in 1..Len(a) : p <= Len(k) /\ a[p] = k[p]})

BothPresent(r, s) == r.answers[s] # NULL /\ r.key[s] # NULL

EqualLength(r, s) == Len(Val(r.answers[s])) = Len(Val(r.key[s]))

\* C1: for every candidate and subject whose answers and key are present
\* and of equal length, the output holds the candidate with hits equal to
\* the number of positions where answers and key agree.
C1_HitsCountMatches ==
    Done =>
      \A i \in 1..Len(source) : \A s \in Subjects :
        BothPresent(source[i], s) /\ EqualLength(source[i], s) =>
          /\ RowsOf(output, source[i]) # {}
          /\ \A o \in RowsOf(output, source[i]) :
               o.hits[s] = MatchCount(Val(source[i].answers[s]),
                                      Val(source[i].key[s]))

\* C2: every output record has 0 <= hits_s <= L_s, for every subject.
C2_HitsWithinLength ==
    Done =>
      \A o \in output : \A s \in Subjects :
        0 <= o.hits[s] /\ o.hits[s] <= Length(s)

\* C3: a candidate whose answers or key of a subject is absent has 0 hits
\* in that subject, whatever the other string holds (the sentinels that
\* stand for the absent string match no character of it).
C3_AbsentGivesZero ==
    Done =>
      \A i \in 1..Len(source) : \A s \in Subjects :
        ~BothPresent(source[i], s) =>
          /\ RowsOf(output, source[i]) # {}
          /\ \A o \in RowsOf(output, source[i]) : o.hits[s] = 0

\* The output records of the (exam_year, hits_s) group of record o that
\* have a score in subject s.
ScoredGroup(out, o, s) ==
    { q \in out : /\ q.exam_year = o.exam_year
                  /\ q.hits[s] = o.hits[s]
                  /\ q.score[s] # NULL }

\* The k-th smallest score of the records: fewer than k records score
\* below it and at least k score it or below.
OrderStatistic(rows, s, k) ==
    CHOOSE v \in {Val(q.score[s]) : q \in rows} :
      /\ Cardinality({q \in rows : Val(q.score[s]) < v}) < k
      /\ Cardinality({q \in rows : Val(q.score[s]) <= v}) >= k

\* Twice the median of the scores of a non-empty set of records.
TwiceMedian(rows, s) ==
    LET n == Cardinality(rows)
    IN  IF n % 2 = 1
          THEN 2 * OrderStatistic(rows, s, (n + 1) \div 2)
          ELSE OrderStatistic(rows, s, n \div 2) +
               OrderStatistic(rows, s, n \div 2 + 1)

C6_RowCountPreserved ==
    Done => Cardinality(output) = Len(source)

\* The characters of a string at the positions below the expected length.
Truncate(str, n) == SubSeq(str, 1, IF Len(str) < n THEN Len(str) ELSE n)

\* C7: when answers and key of a subject are present, the hits count the
\* matches at the positions below the expected length L only, whatever
\* the lengths of the two strings.
C7_ComparedUpToLength ==
    Done =>
      \A i \in 1..Len(source) : \A s \in Subjects :
        BothPresent(source[i], s) =>
          \A o \in RowsOf(output, source[i]) :
            o.hits[s] =
              MatchCount(Truncate(Val(source[i].answers[s]), Length(s)),
                         Truncate(Val(source[i].key[s]), Length(s)))

\* The output records of a hit record.
OutputOf(out, h) == { o \in out : HitOf(o) = h }

Passthrough(o) == <<o.sex, o.school_type>>

\* C8: every hit record is in the output; one that no row of the attribute
\* set matches on (registration_id, exam_year) is there once, with its hits,
\* medians and labels and with every passthrough attribute absent.
C8_UnmatchedHitEmitted ==
    Done =>
      \A h \in hits :
        /\ OutputOf(output, h) # {}
        /\ JoinMatches(h, source) = {} =>
             /\ Cardinality(OutputOf(output, h)) = 1
             /\ \A o \in OutputOf(output, h) :
                  Passthrough(o) = <<NULL, NULL>>

\* A hit record without registration_id and one without exam_year, both
\* matched by no row, are in the output with the passthrough attributes
\* absent, next to a matched record that has them.
C8_Witness ==
    /\ Done
    /\ \E h \in hits : \E o \in OutputOf(output, h) :
         /\ h.registration_id = NULL
         /\ JoinMatches(h, source) = {}
         /\ Passthrough(o) = <<NULL, NULL>>
    /\ \E h \in hits : \E o \in OutputOf(output, h) :
         /\ h.exam_year = NULL
         /\ JoinMatches(h, source) = {}
         /\ Passthrough(o) = <<NULL, NULL>>
    /\ \E h \in hits : \E o \in OutputOf(output, h) :
         /\ JoinMatches(h, source) # {}
         /\ Passthrough(o) # <<NULL, NULL>>

\* C9: every hit record is joined to one attribute row, so it is in the
\* output exactly once, also when several attribute rows share its
\* (registration_id, exam_year).
C9_SingleMatch ==
    Done => \A h \in hits : Cardinality(OutputOf(output, h)) = 1

\* What the output says of every candidate in subject s.
SubjectView(out, s) ==
    { <<o.registration_id, o.exam_year, o.hits[s], o.median_score[s],
        o.above_median[s]>> : o \in out }

\* The rows that differ from row r in one field of a subject other than s:
\* its score, its booklet code, its answers or its key.
OtherSubjectChanges(r, s) ==
    UNION { { [r EXCEPT !.score[u] = v] : v \in {Some(500), Some(600), NULL} }
            \cup { [r EXCEPT !.code_exam[u] = Some(2)],
                   [r EXCEPT !.answers[u] = NULL],
                   [r EXCEPT !.key[u] = NULL] }
            : u \in Subjects \ {s} }

\* The tables that differ from src in such a field of one row.
Variants(src, s) ==
    UNION { { [src EXCEPT ![i] = r] : r \in OtherSubjectChanges(src[i], s) }
            : i \in 1..Len(src) }

\* C10: a table that agrees with the source on exam_year, answers_s, key_s
\* and score_s of every candidate and differs only in fields of the other
\* subjects gives every candidate the same hits_s, median_score_s and
\* above_median_s.
C10_SubjectIndependent ==
    Done =>
      \A s \in Subjects : \A alt \in Variants(source, s) :
        SubjectView(Query(alt), s) = SubjectView(output, s)

\* The medians and labels of a table of output records, by candidate.
Labels(out) ==
    { [ registration_id |-> o.registration_id,
        exam_year |-> o.exam_year,
        t |-> o.t,
        median_score |-> o.median_score,
        above_median |-> o.above_median ] : o \in out }

ScoredHits(hs, h, s) ==
    { g \in hs : /\ g.exam_year = h.exam_year
                 /\ g.hits[s] = h.hits[s]
                 /\ g.score[s] # NULL }

C15_MissingSourceRaises ==
    [][ ~exists =>
          /\ pc = "start"
          /\ pc' = "raised"
          /\ UNCHANGED <<answers, hits, joined, output, out_file>> ]_vars

\* The call has raised on a missing source parquet and the hits parquet of
\* an earlier run is still at out_path.
C15_Witness ==
    /\ ~exists
    /\ pc = "raised"
    /\ out_file = PreviousOutput
    /\ answers = {}
    /\ output = {}

\* C16: whenever a call of download() has returned the path, the file at
\* the path holds every chunk of the remote archive.
C16_ReturnedZipComplete ==
    dl_pc = "returned" => zip = Some(RemoteChunks)

\* C17: with sample_size = n, the output holds one record for each of the
\* first n candidates (for all when there are fewer), each record's hits_s
\* is the count over all positions of the candidate's answers and key, and
\* each record carries the attributes of the candidate's own row.
C17_SampleOfCandidates ==
    (Done /\ sample_size # NULL) =>
      LET n == IF Val(sample_size) < Len(source)
                 THEN Val(sample_size) ELSE Len(source)
      IN  /\ Cardinality(output) = n
          /\ \A i \in 1..n : \E o \in output : o.t = i
          /\ \A o \in output :
               /\ o.t \in 1..n
               /\ GroupKey(o) = GroupKey(source[o.t])
               /\ \A s \in Subjects :
                    o.hits[s] = MatchCount(Val(source[o.t].answers[s]),
                                           Val(source[o.t].key[s]))

====
